---- MODULE Spec2Model ----
(***************************************************************************)
(* A model of qk's state core: the runtime table, the scope tree with its  *)
(* owned handles, the State handle and the Mapped lens (src/src/copy.rs),  *)
(* and the DirtyTrackSet read/write registers (src/src/lib.rs).            *)
(*                                                                         *)
(* The slot table itself (crate::copy_ll: Queue, NodeData, NodeRef) is not *)
(* among the sources; the operators named Queue_* and NodeRef_* follow the *)
(* written specification of the slot table (generational handles, checked  *)
(* borrow, destructor run at removal and at the table's drop).  SlotMap_*  *)
(* follows the slotmap crate the runtime table is built on.                *)
(***************************************************************************)
EXTENDS Integers, Sequences, FiniteSets, TLC

(* ------------------------------ bounds --------------------------------- *)
MaxRuntimes == 1      \* slots of the RUNTIMES SlotMap
MaxRtVer == 2         \* how often one SlotMap slot is reused
MaxScopes == 3        \* Scope values ever created
MaxSlots == 2         \* slots of one runtime's slot table
MaxGen == 2           \* how often one slot-table slot is used
MaxVal == 2           \* payload values 1..MaxVal
MaxDepth == 2         \* nested child / state_with callbacks in progress
NumSites == 2         \* scope!/child_scope! expansion sites (one GUESS pair each)
MaxUpdates == 2       \* on_update invocations counted
MaxIOScopes == 2      \* Scope values created where the payload is followed
Width == 4            \* bits of the registers R and W of a DirtyTrackSet<R, W>

Val == 1..MaxVal
Sites == 1..NumSites

VARIABLES
  ssr, bump, heuristics,  \* cargo features of the build
  runtimes,               \* RUNTIMES (ssr) or the thread-local RUNTIME in slot 1
  rtFree,                 \* the SlotMap's free list, most recently freed first
  scopes,                 \* every Scope value, by creation number
  stack,                  \* callbacks in progress: child's f, state_with's constructor
  fatal,                  \* "none", or the panic that ended the program
  est,                    \* GUESS / GUESS2 of every expansion site
  rtDropCalls,            \* history: ids drop_rt was called with
  hist,                   \* history of every handle: owner, destructor runs, removals, last store
  uses,                   \* history: the usage of the scopes dropped at every site
  last,                   \* history: the last operation and what it saw
  lens,                   \* the Mapped lens and its on_update hook
  track                   \* DirtyTrackSet<R, W>: read and write registers

vars == <<ssr, bump, heuristics, runtimes, rtFree, scopes, stack, fatal, est,
          rtDropCalls, hist, uses, last, lens, track>>

(* ------------------------------ values --------------------------------- *)
NoId == [idx |-> 0, ver |-> 0]
UnitId == [idx |-> 1, ver |-> 0]
NoHandle == [rt |-> NoId, slot |-> 0, gen |-> 0]
NoValue == [v |-> 0, self |-> NoHandle]

Plain(v) == [v |-> v, self |-> NoHandle]

Range(s) == {s[i] : i \in DOMAIN s}

Count(s, x) == Cardinality({i \in DOMAIN s : s[i] = x})

RECURSIVE Flatten(_)
Flatten(ss) == IF ss = <<>> THEN <<>> ELSE Head(ss) \o Flatten(Tail(ss))

(* --------------------- slot table (crate::copy_ll) --------------------- *)
Queue_default == [i \in 1..MaxSlots |-> [gen |-> 0, st |-> "free", val |-> NoValue]]

Queue_vacant(q) == {i \in 1..MaxSlots : q[i].st = "free" /\ q[i].gen < MaxGen}

Queue_reserve(q, i) == [q EXCEPT ![i].st = "reserved"]

Queue_fill(q, i, value) == [q EXCEPT ![i].st = "full", ![i].val = value]

Queue_insert(q, i, value) == Queue_fill(Queue_reserve(q, i), i, value)

Queue_holds(q, slot, gen) ==
  /\ slot \in 1..MaxSlots
  /\ q[slot].st = "full"
  /\ q[slot].gen = gen

Queue_remove(q, slot) ==
  [q EXCEPT ![slot] = [gen |-> @.gen + 1, st |-> "free", val |-> NoValue]]

Queue_live(q, rt) ==
  {[rt |-> rt, slot |-> i, gen |-> q[i].gen] : i \in {j \in 1..MaxSlots : q[j].st = "full"}}

(* ------------------------- runtime table ------------------------------- *)
NoRuntime == [ver |-> 0, live |-> FALSE, states |-> Queue_default]

Runtime_new == Queue_default

SlotMap_get(rts, id) ==
  /\ id.idx \in 1..MaxRuntimes
  /\ rts[id.idx].live
  /\ rts[id.idx].ver = id.ver

SlotMap_next(rts, free) ==
  IF free # <<>> THEN Head(free)
  ELSE Cardinality({i \in 1..MaxRuntimes : rts[i].live \/ rts[i].ver > 0}) + 1

SlotMap_insert(rts, i, states) ==
  [rts EXCEPT ![i] = [ver |-> @.ver, live |-> TRUE, states |-> states]]

SlotMap_remove(rts, id) ==
  IF SlotMap_get(rts, id)
  THEN [rts EXCEPT ![id.idx] = [ver |-> @.ver + 1, live |-> FALSE, states |-> Queue_default]]
  ELSE rts

with_rt_found_slot(id) == IF ssr THEN runtimes[id.idx].live ELSE TRUE

with_rt_found(id) == IF ssr THEN SlotMap_get(runtimes, id) ELSE TRUE

RtIdx(id) == IF ssr THEN id.idx ELSE 1

RtStates(id) == runtimes[RtIdx(id)].states

KnownIds ==
  IF ssr
  THEN {[idx |-> i, ver |-> v] : i \in 1..MaxRuntimes, v \in 0..MaxRtVer} \cap
       {id \in [idx : 1..MaxRuntimes, ver : 0..MaxRtVer] :
          \/ id.ver < runtimes[id.idx].ver
          \/ id.ver = runtimes[id.idx].ver /\ runtimes[id.idx].live}
  ELSE {UnitId}

\* RUNTIMES is a RefCell: with_rt holds a shared borrow of it while f runs
RuntimesBorrowed_never == FALSE

RuntimesBorrowed == ssr /\ \E i \in DOMAIN stack : stack[i].kind = "state_with"

(* ------------------------------ handles -------------------------------- *)
NodeRef_valid(h) ==
  /\ with_rt_found(h.rt)
  /\ Queue_holds(RtStates(h.rt), h.slot, h.gen)

NodeRef_borrow(h) ==
  IF NodeRef_valid(h)
  THEN [ok |-> TRUE, val |-> RtStates(h.rt)[h.slot].val]
  ELSE [ok |-> FALSE, val |-> NoValue]

(* ------------------------------- scopes -------------------------------- *)
\* owns .. bytes: the fields of Scope (bytes: allocator.allocated_bytes(), ownsCap and
\* allocCap: the capacities given at creation); parent, site: the scope child() was
\* called on and the expansion site of scope!/child_scope!; calls, used, prev: history
NoPrev == [some |-> FALSE, bytes |-> 0, owned |-> 0]

NoScope == [st |-> "unused", rt |-> NoId, parent |-> 0, children |-> <<>>,
            owns |-> <<>>, site |-> 0, ownsCap |-> 0, allocCap |-> 0, bytes |-> 0,
            calls |-> 0, used |-> 0, prev |-> NoPrev]

Used == {s \in 1..MaxScopes : scopes[s].st # "unused"}

Usable == {s \in 1..MaxScopes : scopes[s].st \in {"alive", "building"}}

\* the scopes a caller has a reference to: a root it owns, or the scope child() lent
\* to the f in progress; a finished child has moved into its parent's child list
Held == {s \in Usable : scopes[s].parent = 0 \/ scopes[s].st = "building"}

RECURSIVE Root(_)
Root(s) == IF scopes[s].parent = 0 THEN s ELSE Root(scopes[s].parent)

\* a RefCell of a scope: its owned-list or its child list
Cell(kind, s) == [cell |-> kind, scope |-> s]

\* what child() keeps borrowed of the scopes' cells while f runs: nothing, children
\* and owns are borrowed after f returned
Child_borrows(p, c) == {}

StateWith_borrows_owns(s) == {Cell("owns", s)}

\* what state_with keeps borrowed of the scope's cells while the constructor runs:
\* nothing, owns is borrowed after with_rt returned
StateWith_borrows(s) == {}

\* the cells the callbacks in progress keep borrowed
CellsBorrowed(frames) == UNION {frames[i].cells : i \in DOMAIN frames}

\* a root some callback in progress still holds a reference into
Borrowed(r) == \E i \in DOMAIN stack : Root(stack[i].scope) = r

RECURSIVE PreOrder(_)
PreOrder(s) ==
  <<s>> \o Flatten([i \in DOMAIN scopes[s].children |-> PreOrder(scopes[s].children[i])])

(* --------------------------- history records --------------------------- *)
\* gone: the runtime (for an operation that reaches it) or the owning scope (for an
\* access through a State) had been dropped when the operation began; ran: f ran
\* steps: what a drop did, in the order it did it
NoLast == [op |-> "none", gone |-> FALSE, ran |-> FALSE, steps |-> <<>>]

Did(op, gone, ran) == [op |-> op, gone |-> gone, ran |-> ran, steps |-> <<>>]

\* one step of a scope's drop: a key removed, an estimator written with n, or the
\* bump region given back
Step(kind, s, h, n) == [step |-> kind, scope |-> s, h |-> h, n |-> n]

\* given: the handle the constructor received (state_with); built: the value it returned
Registered(s, value, given) ==
  [owner |-> s, dtor |-> 0, removed |-> <<>>, stored |-> value, given |-> given,
   built |-> IF given = NoHandle THEN NoValue ELSE value]

\* the destructor ran: the value is gone
Destroyed(rec) ==
  [rec EXCEPT !.dtor = @ + 1, !.stored = NoValue, !.given = NoHandle, !.built = NoValue]

Handles == DOMAIN hist

OwnerGone(h) == scopes[hist[h].owner].st = "dropped"

(* ------------------------- capacity heuristics ------------------------- *)
NoGuess == [bytes |-> 0, owned |-> 0]

\* n: scopes dropped at the site; bytes, owned: the usage of the last one; same: all
\* of them had that usage; overlap: two scopes of the site were alive together
NoUse == [n |-> 0, bytes |-> 0, owned |-> 0, same |-> TRUE, overlap |-> FALSE]

\* a scope is created at the site
UsesAtCreate(u, site) ==
  IF site \notin DOMAIN u THEN u
  ELSE [u EXCEPT ![site].overlap =
          @ \/ \E s \in DOMAIN scopes : scopes[s].st \in {"alive", "building"} /\ scopes[s].site = site]

\* the usage the scopes before this one had, if they came one after the other and
\* all had the same
PrevAtCreate(u, site) ==
  IF site \in DOMAIN u /\ u[site].n > 0 /\ u[site].same /\ ~u[site].overlap
  THEN [some |-> TRUE, bytes |-> u[site].bytes, owned |-> u[site].owned]
  ELSE NoPrev

UsesAtDrop(u, sc) ==
  IF sc.site \notin DOMAIN u THEN u
  ELSE [u EXCEPT ![sc.site] =
          [n |-> @.n + 1, bytes |-> sc.used, owned |-> sc.calls,
           same |-> @.same /\ (@.n = 0 \/ (@.bytes = sc.used /\ @.owned = sc.calls)),
           overlap |-> @.overlap]]

guess_allocation(site) == est[site].bytes

guess_owned(site) == est[site].owned

update_guess(e, site, new) == [e EXCEPT ![site].bytes = new]

update_owned(e, site, new) == [e EXCEPT ![site].owned = new]

SiteChoices == IF heuristics THEN Sites ELSE {0}

SizeOf(value) == value.v

(* ------------------------------ Scope ---------------------------------- *)
Scope_new(rt, site) ==
  [NoScope EXCEPT !.st = "alive", !.rt = rt, !.site = site,
                  !.ownsCap = IF heuristics /\ bump THEN guess_owned(site) ELSE 0,
                  !.allocCap = IF heuristics /\ bump THEN guess_allocation(site) ELSE 0]

\* parent: the scope child() was called on; it receives the new scope in its child list
Scope_child(p, site) ==
  [NoScope EXCEPT !.st = "building", !.rt = scopes[p].rt, !.parent = p, !.site = site,
                  !.ownsCap = IF heuristics THEN guess_owned(site) ELSE 0,
                  !.allocCap = IF heuristics /\ bump THEN guess_allocation(site) ELSE 0]

\* after f returned: the estimator writes of child(), in the code's order
Scope_child_updates(e, p, c) ==
  LET e1 == IF heuristics /\ bump THEN update_guess(e, scopes[c].site, scopes[c].bytes) ELSE e
  IN IF heuristics THEN update_owned(e1, scopes[p].site, Len(scopes[c].owns)) ELSE e1

Bump_alloc(sc, value) == IF bump THEN [sc EXCEPT !.bytes = @ + SizeOf(value)] ELSE sc

\* history: one more state or state_with call returned, with the bytes it took
Counted(sc, value) ==
  [sc EXCEPT !.calls = @ + 1, !.used = @ + IF bump THEN SizeOf(value) ELSE 0]

Owns_push_none(owns, key) == owns

Owns_push_twice(owns, key) == Append(Append(owns, key), key)

Owns_push(owns, key) == Append(owns, key)

Children_push_none(children, c) == children

Children_push(children, c) == Append(children, c)

Drop_keys_none(s) == <<>>

Drop_keys(s) == scopes[s].owns

\* Drop::drop runs first, then the fields are dropped: the child list front to back
Drop_order_self(r) == <<r>>

Drop_order(r) == PreOrder(r)

\* Drop::drop of one scope, then the drop of its fields in their declared order: the
\* child list (every child in turn), the owned-list, the allocator
RECURSIVE Drop_steps(_)
Drop_steps_owned_first(s) ==
  (IF heuristics THEN <<Step("owned", s, NoHandle, Len(scopes[s].owns))>> ELSE <<>>)
  \o [i \in DOMAIN Drop_keys(s) |-> Step("remove", s, Drop_keys(s)[i], 0)]
  \o (IF heuristics /\ bump THEN <<Step("bytes", s, NoHandle, scopes[s].bytes)>> ELSE <<>>)
  \o Flatten([i \in DOMAIN scopes[s].children |-> Drop_steps(scopes[s].children[i])])
  \o (IF bump THEN <<Step("release", s, NoHandle, 0)>> ELSE <<>>)

Drop_steps_last_first(s) ==
  LET n == Len(scopes[s].children)
  IN [i \in DOMAIN Drop_keys(s) |-> Step("remove", s, Drop_keys(s)[i], 0)]
     \o (IF heuristics /\ bump THEN <<Step("bytes", s, NoHandle, scopes[s].bytes)>> ELSE <<>>)
     \o (IF heuristics THEN <<Step("owned", s, NoHandle, Len(scopes[s].owns))>> ELSE <<>>)
     \o Flatten([i \in 1..n |-> Drop_steps(scopes[s].children[n + 1 - i])])
     \o (IF bump THEN <<Step("release", s, NoHandle, 0)>> ELSE <<>>)

Drop_steps(s) ==
  [i \in DOMAIN Drop_keys(s) |-> Step("remove", s, Drop_keys(s)[i], 0)]
  \o (IF heuristics /\ bump THEN <<Step("bytes", s, NoHandle, scopes[s].bytes)>> ELSE <<>>)
  \o (IF heuristics THEN <<Step("owned", s, NoHandle, Len(scopes[s].owns))>> ELSE <<>>)
  \o Flatten([i \in DOMAIN scopes[s].children |-> Drop_steps(scopes[s].children[i])])
  \o (IF bump THEN <<Step("release", s, NoHandle, 0)>> ELSE <<>>)

\* the estimator writes of one scope's drop, in the code's order
Drop_updates(e, s) ==
  LET e1 == IF heuristics /\ bump THEN update_guess(e, scopes[s].site, scopes[s].bytes) ELSE e
  IN IF heuristics THEN update_owned(e1, scopes[s].site, Len(scopes[s].owns)) ELSE e1

RECURSIVE Drop_all_updates(_, _)
Drop_all_updates(e, order) ==
  IF order = <<>> THEN e ELSE Drop_all_updates(Drop_updates(e, Head(order)), Tail(order))

RECURSIVE UsesAfterDrops(_, _)
UsesAfterDrops(u, order) ==
  IF order = <<>> THEN u ELSE UsesAfterDrops(UsesAtDrop(u, scopes[Head(order)]), Tail(order))

\* runtime.states.remove(key) for each key in turn; a key that is not in the table stops it
RECURSIVE Drop_removals(_, _, _)
Drop_removals(q, keys, done) ==
  IF keys = <<>> THEN [q |-> q, done |-> done, ok |-> TRUE]
  ELSE IF ~Queue_holds(q, Head(keys).h.slot, Head(keys).h.gen)
       THEN [q |-> q, done |-> done, ok |-> FALSE]
       ELSE Drop_removals(Queue_remove(q, Head(keys).h.slot), Tail(keys),
                          Append(done, Head(keys)))

KeysBy(order) ==
  Flatten([i \in DOMAIN order |->
             [j \in DOMAIN Drop_keys(order[i]) |->
                [h |-> Drop_keys(order[i])[j], by |-> order[i]]]])

HistAfterRemovals(done) ==
  [h \in DOMAIN hist |->
     LET mine == SelectSeq(done, LAMBDA p : p.h = h)
     IN IF mine = <<>> THEN hist[h]
        ELSE [Destroyed(hist[h]) EXCEPT !.dtor = hist[h].dtor + Len(mine),
                                        !.removed = @ \o [i \in DOMAIN mine |-> mine[i].by]]]

HistAfterTableDrop(q, rt) ==
  [h \in DOMAIN hist |-> IF h \in Queue_live(q, rt) THEN Destroyed(hist[h]) ELSE hist[h]]

(* ------------------------------ StateIO -------------------------------- *)
StateIO_with(h) == NodeRef_borrow(h)

StateIO_get(h) == StateIO_with(h)

StateIO_with_mut_any(rts, h, new) ==
  [rts EXCEPT ![RtIdx(h.rt)].states =
     [i \in DOMAIN @ |-> IF @[i].st = "full" THEN [@[i] EXCEPT !.val = new] ELSE @[i]]]

\* with_mut(f): f is applied to the borrowed value in place
StateIO_with_mut(rts, h, new) ==
  [rts EXCEPT ![RtIdx(h.rt)].states[h.slot].val = new]

StateIO_set(rts, h, value) == StateIO_with_mut(rts, h, value)

(* --------------------------- DirtyTrackSet ----------------------------- *)
Idx == 0..(Width - 1)

Pow2(n) == 2 ^ n

Bit(x, n) == (x \div Pow2(n)) % 2

BitOr(a, b) ==
  LET or[n \in 0..Width] ==
        IF n = Width THEN 0
        ELSE (IF Bit(a, n) = 1 \/ Bit(b, n) = 1 THEN Pow2(n) ELSE 0) + or[n + 1]
  IN or[0]

BitAnd(a, b) ==
  LET and[n \in 0..Width] ==
        IF n = Width THEN 0
        ELSE (IF Bit(a, n) = 1 /\ Bit(b, n) = 1 THEN Pow2(n) ELSE 0) + and[n + 1]
  IN and[0]

\* one() << num, in a register of Width bits
Shl1(num) == Pow2(num) % Pow2(Width)

DirtyTrackSet_is_read(t, num) == BitAnd(t.read, Shl1(num)) # 0

DirtyTrackSet_is_write(t, num) == BitAnd(t.write, Shl1(num)) # 0

DirtyTrackSet_reset_read_both(t) == [read |-> 0, write |-> 0]

DirtyTrackSet_reset_read(t) == [t EXCEPT !.read = 0]

DirtyTrackSet_reset_write(t) == [t EXCEPT !.write = 0]

DirtyTrack_read_add(t, num) == [t EXCEPT !.read = (@ + Shl1(num)) % Pow2(Width)]

DirtyTrack_read(t, num) == [t EXCEPT !.read = BitOr(@, Shl1(num))]

DirtyTrack_write(t, num) == [t EXCEPT !.write = BitOr(@, Shl1(num))]

\* *guard: Deref::deref marks the read, then yields the data
RwTrack_deref(t, num) == DirtyTrack_read(t, num)

\* *guard = ..: DerefMut::deref_mut marks the write, then yields the data
RwTrack_deref_mut(t, num) == DirtyTrack_write(t, num)

(* ------------------------------- Mapped -------------------------------- *)
\* updates, seen: what the on_update hook has counted and last read of the base;
\* calls, wrote, fn, got: history of the calls made through the lens
NoLens == [made |-> FALSE, inner |-> NoHandle, updates |-> 0, seen |-> NoValue,
           calls |-> 0, wrote |-> NoValue, fn |-> "none", got |-> 0]

\* the functions a caller passes to with and with_mut
Fns == {"inc", "one"}

Apply(fn, o) == IF fn = "inc" THEN (o % MaxVal) + 1 ELSE 1

\* the projections given to map: a field of the base value
Mapped_f(x) == x.v

Mapped_f_mut(x, o) == [x EXCEPT !.v = o]

State_map(h) == [NoLens EXCEPT !.made = TRUE, !.inner = h]

Peek(rts, h) == rts[RtIdx(h.rt)].states[h.slot].val

\* the on_update hook given to map: it counts, and reads the base
Mapped_update(ln, rts) == [ln EXCEPT !.updates = @ + 1, !.seen = Peek(rts, ln.inner)]

Mapped_with(ln, fn) ==
  LET r == StateIO_with(ln.inner)
  IN [ok |-> r.ok, out |-> IF r.ok THEN Apply(fn, Mapped_f(r.val)) ELSE 0]

Mapped_with_mut_early(rts, ln, fn) ==
  LET x == Peek(rts, ln.inner)
  IN [rts |-> StateIO_with_mut(rts, ln.inner, Mapped_f_mut(x, Apply(fn, Mapped_f(x)))),
      lens |-> Mapped_update(ln, rts)]

\* inner.with_mut(|x| f(f_mut(x))), then update()
Mapped_with_mut(rts, ln, fn) ==
  LET x == Peek(rts, ln.inner)
      rts1 == StateIO_with_mut(rts, ln.inner, Mapped_f_mut(x, Apply(fn, Mapped_f(x))))
  IN [rts |-> rts1, lens |-> Mapped_update(ln, rts1)]

(* ============================== actions ================================ *)
Running == fatal = "none"

Panic(why, did) ==
  /\ fatal' = why
  /\ last' = did

(* RuntimeId::create and claim_rt: the same insertion into RUNTIMES *)
Runtimes_insert ==
  /\ Running
  /\ IF ~ssr
     THEN /\ last' = Did("create", FALSE, TRUE)
          /\ UNCHANGED <<runtimes, rtFree, fatal>>
     ELSE IF RuntimesBorrowed
     THEN /\ Panic("already borrowed", Did("create", FALSE, FALSE))
          /\ UNCHANGED <<runtimes, rtFree>>
     ELSE LET i == SlotMap_next(runtimes, rtFree)
          IN /\ i <= MaxRuntimes
             /\ runtimes[i].ver < MaxRtVer
             /\ runtimes' = SlotMap_insert(runtimes, i, Runtime_new)
             /\ rtFree' = IF rtFree # <<>> THEN Tail(rtFree) ELSE rtFree
             /\ last' = Did("create", FALSE, TRUE)
             /\ UNCHANGED fatal
  /\ UNCHANGED <<ssr, bump, heuristics, scopes, stack, est, uses, rtDropCalls, hist, lens, track>>

RuntimeId_create == Runtimes_insert

claim_rt == Runtimes_insert

drop_rt(id) ==
  /\ Running
  /\ id \in KnownIds
  /\ IF ~ssr
     THEN /\ rtDropCalls' = rtDropCalls \cup {id}
          /\ last' = Did("drop_rt", FALSE, TRUE)
          /\ UNCHANGED <<runtimes, rtFree, fatal, hist>>
     ELSE IF RuntimesBorrowed
     THEN /\ Panic("already borrowed", Did("drop_rt", FALSE, FALSE))
          /\ UNCHANGED <<runtimes, rtFree, rtDropCalls, hist>>
     ELSE /\ runtimes' = SlotMap_remove(runtimes, id)
          /\ rtFree' = IF SlotMap_get(runtimes, id) THEN <<id.idx>> \o rtFree ELSE rtFree
          /\ hist' = IF SlotMap_get(runtimes, id)
                     THEN HistAfterTableDrop(runtimes[id.idx].states, id)
                     ELSE hist
          /\ rtDropCalls' = rtDropCalls \cup {id}
          /\ last' = Did("drop_rt", id \in rtDropCalls, TRUE)
          /\ UNCHANGED fatal
  /\ UNCHANGED <<ssr, bump, heuristics, scopes, stack, est, uses, lens, track>>

ScopeNew(rt, site) ==
  /\ Running
  /\ rt \in KnownIds
  /\ site \in SiteChoices
  /\ Cardinality(Used) < MaxScopes
  /\ uses' = UsesAtCreate(uses, site)
  /\ scopes' = [scopes EXCEPT ![Cardinality(Used) + 1] =
                  [Scope_new(rt, site) EXCEPT !.prev = PrevAtCreate(uses', site)]]
  /\ last' = Did("scope", FALSE, FALSE)
  /\ UNCHANGED <<ssr, bump, heuristics, runtimes, rtFree, stack, fatal, est, rtDropCalls,
                 hist, lens, track>>

(* child(f): up to the call of f *)
ChildBegin(p, site) ==
  /\ Running
  /\ p \in Held
  /\ site \in SiteChoices
  /\ Cardinality(Used) < MaxScopes
  /\ Len(stack) < MaxDepth
  /\ LET c == Cardinality(Used) + 1
     IN /\ uses' = UsesAtCreate(uses, site)
        /\ scopes' = [scopes EXCEPT ![c] =
                        [Scope_child(p, site) EXCEPT !.prev = PrevAtCreate(uses', site)]]
        /\ stack' = Append(stack, [kind |-> "child", scope |-> c, h |-> NoHandle,
                                   cells |-> Child_borrows(p, c)])
  /\ last' = Did("scope", FALSE, FALSE)
  /\ UNCHANGED <<ssr, bump, heuristics, runtimes, rtFree, fatal, est, rtDropCalls, hist,
                 lens, track>>

(* child(f): from the return of f *)
ChildEnd ==
  /\ Running
  /\ stack # <<>>
  /\ stack[Len(stack)].kind = "child"
  /\ LET c == stack[Len(stack)].scope
         p == scopes[c].parent
         below == CellsBorrowed(SubSeq(stack, 1, Len(stack) - 1))
     IN IF (heuristics /\ Cell("owns", c) \in below) \/ Cell("children", p) \in below
        THEN /\ Panic("cell borrowed", Did("scope", FALSE, FALSE))
             /\ UNCHANGED <<est, scopes>>
        ELSE /\ est' = Scope_child_updates(est, p, c)
             /\ scopes' = [scopes EXCEPT ![p].children = Children_push(@, c), ![c].st = "alive"]
             /\ last' = Did("scope", FALSE, FALSE)
             /\ UNCHANGED fatal
  /\ stack' = SubSeq(stack, 1, Len(stack) - 1)
  /\ UNCHANGED <<ssr, bump, heuristics, runtimes, rtFree, uses, rtDropCalls, hist,
                 lens, track>>

\* the handle insert and insert_with give to the slot they take
Queue_key(q, rt, i) == [rt |-> rt, slot |-> i, gen |-> q[i].gen]

ScopeState(s, v) ==
  /\ Running
  /\ s \in Held
  /\ LET rt == scopes[s].rt
         value == Plain(v)
         gone == rt \in rtDropCalls
     IN IF ~with_rt_found(rt)
        THEN /\ Panic("runtime dropped", Did("state", gone, FALSE))
             /\ scopes' = [scopes EXCEPT ![s] = Bump_alloc(@, value)]
             /\ UNCHANGED <<runtimes, hist>>
        ELSE \E i \in Queue_vacant(RtStates(rt)) :
               LET key == Queue_key(RtStates(rt), rt, i)
               IN /\ runtimes' = [runtimes EXCEPT ![RtIdx(rt)].states = Queue_insert(@, i, value)]
                  /\ IF Cell("owns", s) \in CellsBorrowed(stack)
                     THEN /\ Panic("cell borrowed", Did("state", gone, TRUE))
                          /\ scopes' = [scopes EXCEPT ![s] = Bump_alloc(@, value)]
                          /\ UNCHANGED hist
                     ELSE /\ scopes' = [scopes EXCEPT
                                          ![s] = Counted([Bump_alloc(@, value) EXCEPT
                                                            !.owns = Owns_push(@, key)], value)]
                          /\ hist' = (key :> Registered(s, value, NoHandle)) @@ hist
                          /\ last' = Did("state", gone, TRUE)
                          /\ UNCHANGED fatal
  /\ UNCHANGED <<ssr, bump, heuristics, rtFree, stack, est, uses, rtDropCalls, lens, track>>

(* state_with(constructor): up to the call of the constructor, inside with_rt *)
StateWithBegin(s) ==
  /\ Running
  /\ s \in Held
  /\ Len(stack) < MaxDepth
  /\ LET rt == scopes[s].rt
         gone == rt \in rtDropCalls
     IN IF ~with_rt_found(rt)
        THEN /\ Panic("runtime dropped", Did("state_with", gone, FALSE))
             /\ UNCHANGED <<runtimes, stack>>
        ELSE \E i \in Queue_vacant(RtStates(rt)) :
               /\ runtimes' = [runtimes EXCEPT ![RtIdx(rt)].states = Queue_reserve(@, i)]
               /\ stack' = Append(stack, [kind |-> "state_with", scope |-> s,
                                          h |-> Queue_key(RtStates(rt), rt, i),
                                          cells |-> StateWith_borrows(s)])
               /\ last' = Did("state_with", gone, TRUE)
               /\ UNCHANGED fatal
  /\ UNCHANGED <<ssr, bump, heuristics, rtFree, scopes, est, uses, rtDropCalls, hist, lens, track>>

(* state_with(constructor): from the return of the constructor; keep: the value it *)
(* built holds the copy of the handle it was given                                 *)
StateWithEnd(v, keep) ==
  /\ Running
  /\ stack # <<>>
  /\ stack[Len(stack)].kind = "state_with"
  /\ LET s == stack[Len(stack)].scope
         given == stack[Len(stack)].h
         rt == scopes[s].rt
         value == [v |-> v, self |-> IF keep THEN given ELSE NoHandle]
         key == Queue_key(RtStates(rt), rt, given.slot)
     IN /\ runtimes' = [runtimes EXCEPT ![RtIdx(rt)].states = Queue_fill(@, given.slot, value)]
        /\ IF Cell("owns", s) \in CellsBorrowed(SubSeq(stack, 1, Len(stack) - 1))
           THEN /\ Panic("cell borrowed", Did("state_with", FALSE, TRUE))
                /\ scopes' = [scopes EXCEPT ![s] = Bump_alloc(@, value)]
                /\ UNCHANGED hist
           ELSE /\ scopes' = [scopes EXCEPT
                                ![s] = Counted([Bump_alloc(@, value) EXCEPT
                                                  !.owns = Owns_push(@, key)], value)]
                /\ hist' = (key :> Registered(s, value, given)) @@ hist
                /\ last' = Did("state_with", FALSE, TRUE)
                /\ UNCHANGED fatal
  /\ stack' = SubSeq(stack, 1, Len(stack) - 1)
  /\ UNCHANGED <<ssr, bump, heuristics, rtFree, est, uses, rtDropCalls, lens, track>>

(* drop of a root scope: Drop::drop of the scope, then of every descendant *)
DropScope(r) ==
  /\ Running
  /\ r \in Used
  /\ scopes[r].st = "alive"
  /\ scopes[r].parent = 0
  /\ ~Borrowed(r)
  /\ LET rt == scopes[r].rt
         gone == rt \in rtDropCalls
         order == Drop_order(r)
         res == Drop_removals(RtStates(rt), KeysBy(order), <<>>)
     IN IF ~with_rt_found(rt)
        THEN /\ Panic("runtime dropped", Did("drop", gone, FALSE))
             /\ UNCHANGED <<runtimes, scopes, est, uses, hist>>
        ELSE /\ runtimes' = [runtimes EXCEPT ![RtIdx(rt)].states = res.q]
             /\ hist' = HistAfterRemovals(res.done)
             /\ IF res.ok
                THEN /\ scopes' = [s \in DOMAIN scopes |->
                                     IF s \in Range(order)
                                     THEN [NoScope EXCEPT !.st = "dropped", !.parent = scopes[s].parent]
                                     ELSE scopes[s]]
                     /\ est' = Drop_all_updates(est, order)
                     /\ uses' = UsesAfterDrops(uses, order)
                     /\ last' = [Did("drop", gone, TRUE) EXCEPT !.steps = Drop_steps(r)]
                     /\ UNCHANGED fatal
                ELSE /\ Panic("double remove", Did("drop", gone, TRUE))
                     /\ UNCHANGED <<scopes, est, uses>>
  /\ UNCHANGED <<ssr, bump, heuristics, rtFree, stack, rtDropCalls, lens, track>>

(* with / get on a copy of a State *)
StateGet(h) ==
  /\ Running
  /\ h \in Handles
  /\ IF StateIO_get(h).ok
     THEN /\ last' = Did("get", OwnerGone(h), TRUE)
          /\ UNCHANGED fatal
     ELSE Panic("stale handle", Did("get", OwnerGone(h), FALSE))
  /\ UNCHANGED <<ssr, bump, heuristics, runtimes, rtFree, scopes, stack, est, uses, rtDropCalls,
                 hist, lens, track>>

(* set on a copy of a State *)
StateSet(h, v) ==
  /\ Running
  /\ h \in Handles
  /\ IF NodeRef_borrow(h).ok
     THEN /\ runtimes' = StateIO_set(runtimes, h, Plain(v))
          /\ hist' = [hist EXCEPT ![h].stored = Plain(v)]
          /\ last' = Did("set", OwnerGone(h), TRUE)
          /\ UNCHANGED fatal
     ELSE /\ Panic("stale handle", Did("set", OwnerGone(h), FALSE))
          /\ UNCHANGED <<runtimes, hist>>
  /\ UNCHANGED <<ssr, bump, heuristics, rtFree, scopes, stack, est, uses, rtDropCalls, lens, track>>

(* with_mut(|x| x.v = v) on a copy of a State *)
StateWithMut(h, v) ==
  /\ Running
  /\ h \in Handles
  /\ LET r == NodeRef_borrow(h)
         new == [r.val EXCEPT !.v = v]
     IN IF r.ok
        THEN /\ runtimes' = StateIO_with_mut(runtimes, h, new)
             /\ hist' = [hist EXCEPT ![h].stored = new]
             /\ last' = Did("with_mut", OwnerGone(h), TRUE)
             /\ UNCHANGED fatal
        ELSE /\ Panic("stale handle", Did("with_mut", OwnerGone(h), FALSE))
             /\ UNCHANGED <<runtimes, hist>>
  /\ UNCHANGED <<ssr, bump, heuristics, rtFree, scopes, stack, est, uses, rtDropCalls, lens, track>>

(* map on a copy of a State *)
StateMap(h) ==
  /\ Running
  /\ h \in Handles
  /\ ~lens.made
  /\ lens' = State_map(h)
  /\ last' = Did("map", OwnerGone(h), TRUE)
  /\ UNCHANGED <<ssr, bump, heuristics, runtimes, rtFree, scopes, stack, fatal, est, uses,
                 rtDropCalls, hist, track>>

(* with / get through the lens *)
LensWith(fn) ==
  /\ Running
  /\ lens.made
  /\ LET r == Mapped_with(lens, fn)
     IN IF r.ok
        THEN /\ lens' = [lens EXCEPT !.fn = fn, !.got = r.out]
             /\ last' = Did("lens_with", OwnerGone(lens.inner), TRUE)
             /\ UNCHANGED fatal
        ELSE /\ Panic("stale handle", Did("lens_with", OwnerGone(lens.inner), FALSE))
             /\ UNCHANGED lens
  /\ UNCHANGED <<ssr, bump, heuristics, runtimes, rtFree, scopes, stack, est, uses, rtDropCalls,
                 hist, track>>

(* with_mut / set through the lens *)
LensWithMut(fn) ==
  /\ Running
  /\ lens.made
  /\ lens.updates < MaxUpdates
  /\ IF NodeRef_borrow(lens.inner).ok
     THEN LET r == Mapped_with_mut(runtimes, lens, fn)
              old == hist[lens.inner].stored
              new == [old EXCEPT !.v = Apply(fn, old.v)]
          IN /\ runtimes' = r.rts
             /\ lens' = [r.lens EXCEPT !.calls = @ + 1, !.wrote = new, !.fn = fn]
             /\ hist' = [hist EXCEPT ![lens.inner].stored = new]
             /\ last' = Did("lens_with_mut", OwnerGone(lens.inner), TRUE)
             /\ UNCHANGED fatal
     ELSE /\ Panic("stale handle", Did("lens_with_mut", OwnerGone(lens.inner), FALSE))
          /\ UNCHANGED <<runtimes, lens, hist>>
  /\ UNCHANGED <<ssr, bump, heuristics, rtFree, scopes, stack, est, uses, rtDropCalls, track>>

TrackFrame ==
  UNCHANGED <<ssr, bump, heuristics, runtimes, rtFree, scopes, stack, fatal, est, uses,
              rtDropCalls, hist, lens>>

(* a read through the RwTrack guard of index num *)
Deref(num) ==
  /\ track' = RwTrack_deref(track, num)
  /\ last' = Did("deref", FALSE, TRUE)
  /\ TrackFrame

(* a write through the RwTrack guard of index num *)
DerefMut(num) ==
  /\ track' = RwTrack_deref_mut(track, num)
  /\ last' = Did("deref_mut", FALSE, TRUE)
  /\ TrackFrame

ResetRead ==
  /\ track' = DirtyTrackSet_reset_read(track)
  /\ last' = Did("reset_read", FALSE, TRUE)
  /\ TrackFrame

ResetWrite ==
  /\ track' = DirtyTrackSet_reset_write(track)
  /\ last' = Did("reset_write", FALSE, TRUE)
  /\ TrackFrame

(* ------------------------- the state machine --------------------------- *)
NoTrack == [read |-> 0, write |-> 0]

InitBase ==
  /\ runtimes = [i \in 1..MaxRuntimes |->
                   IF ~ssr /\ i = 1 THEN [NoRuntime EXCEPT !.live = TRUE] ELSE NoRuntime]
  /\ rtFree = <<>>
  /\ scopes = [s \in 1..MaxScopes |-> NoScope]
  /\ stack = <<>>
  /\ fatal = "none"
  /\ est = [s \in Sites |-> NoGuess]
  /\ uses = [s \in Sites |-> NoUse]
  /\ rtDropCalls = {}
  /\ hist = <<>>
  /\ last = NoLast
  /\ lens = NoLens
  /\ track = NoTrack

(* Scope lifetimes over the runtime table, in both the single-instance and the *)
(* multi-instance build; the payload of a value plays no part                  *)
Init ==
  /\ ssr \in BOOLEAN
  /\ bump = FALSE
  /\ heuristics = FALSE
  /\ InitBase

Next ==
  \/ RuntimeId_create
  \/ claim_rt
  \/ \E id \in KnownIds : drop_rt(id)
  \/ \E id \in KnownIds, site \in SiteChoices : ScopeNew(id, site)
  \/ \E p \in Held, site \in SiteChoices : ChildBegin(p, site)
  \/ ChildEnd
  \/ \E s \in Held : ScopeState(s, 1)
  \/ \E s \in Held : StateWithBegin(s)
  \/ \E keep \in BOOLEAN : StateWithEnd(1, keep)
  \/ \E r \in Used : DropScope(r)
  \/ \E h \in Handles : StateGet(h)
  \/ \E h \in Handles : StateSet(h, 1)
  \/ \E h \in Handles : StateWithMut(h, 1)

Spec == Init /\ [][Next]_vars

(* Values read and written through State handles; every scope is a root *)
NextIO ==
  \/ RuntimeId_create
  \/ \E id \in KnownIds : drop_rt(id)
  \/ \E id \in KnownIds, site \in SiteChoices :
       Cardinality(Used) < MaxIOScopes /\ ScopeNew(id, site)
  \/ \E s \in Held, v \in Val : ScopeState(s, v)
  \/ \E s \in Held : StateWithBegin(s)
  \/ \E v \in Val, keep \in BOOLEAN : StateWithEnd(v, keep)
  \/ \E r \in Used : DropScope(r)
  \/ \E h \in Handles : StateGet(h)
  \/ \E h \in Handles, v \in Val : StateSet(h, v)
  \/ \E h \in Handles, v \in Val : StateWithMut(h, v)

SpecIO == Init /\ [][NextIO]_vars

(* The single-instance build without bump allocation and heuristics *)
InitSingle ==
  /\ ssr = FALSE
  /\ bump = FALSE
  /\ heuristics = FALSE
  /\ InitBase

(* A Mapped lens over a State of a root scope *)
NextLens ==
  \/ \E id \in KnownIds, site \in SiteChoices :
       Cardinality(Used) < MaxIOScopes /\ ScopeNew(id, site)
  \/ \E s \in Held, v \in Val : ScopeState(s, v)
  \/ \E r \in Used : DropScope(r)
  \/ \E h \in Handles : StateGet(h)
  \/ \E h \in Handles, v \in Val : StateSet(h, v)
  \/ \E h \in Handles : StateMap(h)
  \/ \E fn \in Fns : LensWith(fn)
  \/ \E fn \in Fns : LensWithMut(fn)

SpecLens == InitSingle /\ [][NextLens]_vars

(* One DirtyTrackSet and the RwTrack guards of its indices *)
NextTrack ==
  \/ \E num \in Idx : Deref(num)
  \/ \E num \in Idx : DerefMut(num)
  \/ ResetRead
  \/ ResetWrite

SpecTrack == InitSingle /\ [][NextTrack]_vars

(* The builds with capacity heuristics, with and without bump allocation; the *)
(* payload of a value is its size                                             *)
InitHeur ==
  /\ ssr = FALSE
  /\ bump \in BOOLEAN
  /\ heuristics = TRUE
  /\ InitBase

NextHeur ==
  \/ \E site \in SiteChoices : ScopeNew(UnitId, site)
  \/ \E p \in Held, site \in SiteChoices : ChildBegin(p, site)
  \/ ChildEnd
  \/ \E s \in Held, v \in Val : ScopeState(s, v)
  \/ \E r \in Used : DropScope(r)

SpecHeur == InitHeur /\ [][NextHeur]_vars

(* ============================== claims ================================= *)
RtDropped(id) == ssr /\ id \in rtDropCalls

RECURSIVE SubtreeDropped(_)
SubtreeDropped(s) ==
  \/ scopes[s].st = "dropped"
  \/ scopes[s].parent # 0 /\ SubtreeDropped(scopes[s].parent)

\* C1: every handle returned by state/state_with is in the owned-list of exactly one
\* scope, the one it was called on, exactly once; its slot-table entry is removed by
\* that scope's drop only, once, and no removal is ever attempted twice.
C1_OwnedByOneScope ==
  /\ fatal # "double remove"
  /\ \A s \in Usable : Range(scopes[s].owns) \subseteq Handles
  /\ \A h \in Handles :
       LET o == hist[h].owner
       IN /\ scopes[o].st # "dropped" =>
               /\ {s \in Usable : h \in Range(scopes[s].owns)} = {o}
               /\ Count(scopes[o].owns, h) = 1
          /\ Len(hist[h].removed) <= 1
          /\ Range(hist[h].removed) \subseteq {o}
          /\ hist[h].removed # <<>> => OwnerGone(h)
          /\ ~RtDropped(h.rt) =>
               /\ OwnerGone(h) => hist[h].removed = <<o>>
               /\ ~NodeRef_valid(h) => hist[h].removed = <<o>>

C1_Witness ==
  \E h1 \in Handles, h2 \in Handles :
    /\ hist[h1].removed = <<hist[h1].owner>>
    /\ NodeRef_valid(h2)
    /\ scopes[hist[h2].owner].parent # 0
    /\ h1.slot = h2.slot

\* C2 as stated: the destructor of a value runs at most once, not before the owning
\* scope is dropped, and has run once the runtime is dropped.
C2_AfterScopeDrop ==
  \A h \in Handles :
    /\ hist[h].dtor <= 1
    /\ hist[h].dtor = 1 => OwnerGone(h)
    /\ RtDropped(h.rt) => hist[h].dtor = 1

\* C2 amended: the destructor of a value runs at most once, at the drop of the owning
\* scope or at the drop of its runtime, whichever comes first, and not before both.
C2_DestructorOnce ==
  \A h \in Handles :
    /\ hist[h].dtor <= 1
    /\ hist[h].dtor = 1 => (OwnerGone(h) \/ RtDropped(h.rt))
    /\ OwnerGone(h) => hist[h].dtor = 1
    /\ RtDropped(h.rt) => hist[h].dtor = 1

C2_Witness ==
  \E h1 \in Handles, h2 \in Handles :
    /\ hist[h1].dtor = 1 /\ ~OwnerGone(h1) /\ RtDropped(h1.rt)
    /\ hist[h2].dtor = 1 /\ OwnerGone(h2) /\ ~RtDropped(h2.rt)

\* C3: once a scope is dropped its descendants are dropped too, no handle of the
\* subtree is in the slot table, and an access through such a handle is a fatal
\* error that yields nothing, also when the slot has been taken again.
C3_DroppedSubtreeStale ==
  /\ \A s \in Usable : ~SubtreeDropped(s)
  /\ \A h \in Handles :
       SubtreeDropped(hist[h].owner) => ~NodeRef_valid(h) /\ ~StateIO_with(h).ok
  /\ (last.op \in {"get", "set", "with_mut"} /\ last.gone) =>
       ~last.ran /\ fatal = "stale handle"

C3_Witness ==
  \E h1 \in Handles, h2 \in Handles :
    /\ OwnerGone(h1)
    /\ scopes[hist[h1].owner].parent # 0
    /\ h2.rt = h1.rt /\ h2.slot = h1.slot /\ h2.gen > h1.gen
    /\ NodeRef_valid(h2)
    /\ last.op = "get" /\ last.gone /\ fatal = "stale handle"

RuntimeOps == {"state", "state_with", "drop"}

C5_ReadsBackWhileScopeAlive ==
  \A h \in Handles :
    ~OwnerGone(h) => StateIO_get(h) = [ok |-> TRUE, val |-> hist[h].stored]

\* C5 amended: while the owning scope is alive and its runtime has not been dropped,
\* a read through any copy of a handle yields the value last stored through that
\* handle, whatever was done through other handles.
C5_ReadsBack ==
  \A h \in Handles :
    (~OwnerGone(h) /\ ~RtDropped(h.rt)) =>
      StateIO_get(h) = [ok |-> TRUE, val |-> hist[h].stored]

C5_Witness ==
  \E h1 \in Handles, h2 \in Handles :
    /\ h1 # h2
    /\ NodeRef_valid(h1) /\ NodeRef_valid(h2)
    /\ hist[h1].stored.v # hist[h2].stored.v
    /\ hist[h1].stored # hist[h1].built
    /\ last.op = "set"

\* C6: the handle state_with returns is the one its constructor received; it is in
\* the owned-list of the scope exactly once, and not before the constructor has
\* returned; the copy kept in the built value reads back the built value.
C6_StateWithHandle ==
  /\ \A i \in DOMAIN stack :
       stack[i].kind = "state_with" =>
         /\ stack[i].h \notin Handles
         /\ \A s \in Usable : stack[i].h \notin Range(scopes[s].owns)
  /\ \A h \in Handles :
       hist[h].given # NoHandle =>
         /\ hist[h].given = h
         /\ Count(scopes[hist[h].owner].owns, h) = 1
         /\ hist[h].stored = hist[h].built =>
              LET r == StateIO_get(h)
              IN /\ r.ok
                 /\ r.val = hist[h].built
                 /\ r.val.self # NoHandle => StateIO_get(r.val.self) = r

C6_Witness ==
  \E h \in Handles :
    /\ hist[h].given = h
    /\ hist[h].built.self = h
    /\ StateIO_get(StateIO_get(h).val.self).val = hist[h].built
    /\ Len(scopes[hist[h].owner].owns) > 1
    /\ last.op = "get"

\* every entry of every slot table was put there by a state/state_with of a scope
TableFromScopes ==
  \A i \in 1..MaxRuntimes :
    \A h \in Queue_live(runtimes[i].states, IF ssr THEN [idx |-> i, ver |-> runtimes[i].ver] ELSE UnitId) :
      /\ (ssr \/ i = 1) => h \in Handles
      /\ h \in Handles => h \in Range(scopes[hist[h].owner].owns)

\* C7: a with_mut through the lens applies the caller's function to the projected
\* field of the base value and then runs on_update once, which sees the new value;
\* a with through the lens yields the function of the projected field and runs no
\* on_update; making the lens adds no entry to a slot table or an owned-list.
C7_LensUpdate ==
  /\ lens.updates = lens.calls
  /\ lens.calls > 0 => lens.seen = lens.wrote
  /\ (last.op = "lens_with_mut" /\ last.ran) =>
       StateIO_get(lens.inner) = [ok |-> TRUE, val |-> lens.wrote]
  /\ (last.op = "lens_with" /\ last.ran) =>
       lens.got = Apply(lens.fn, hist[lens.inner].stored.v)
  /\ (last.op \in {"lens_with", "lens_with_mut"} /\ ~last.ran) => fatal = "stale handle"
  /\ TableFromScopes

C7_Witness ==
  /\ lens.updates = 2
  /\ lens.seen.v = 2
  /\ last.op = "lens_with" /\ last.ran
  /\ lens.got = 1 /\ lens.fn = "inc"
  /\ Cardinality(Handles) > 1

\* C8: a read through the guard of index i sets read bit i and changes no other read
\* bit and no write bit; a write through it sets write bit i and changes no other
\* write bit and no read bit.
C8_GuardSetsOneBit ==
  [][\A i \in Idx :
       /\ Deref(i) =>
            /\ \A j \in Idx : DirtyTrackSet_is_read(track', j) <=>
                               (j = i \/ DirtyTrackSet_is_read(track, j))
            /\ \A j \in Idx : DirtyTrackSet_is_write(track', j) <=>
                               DirtyTrackSet_is_write(track, j)
       /\ DerefMut(i) =>
            /\ \A j \in Idx : DirtyTrackSet_is_write(track', j) <=>
                               (j = i \/ DirtyTrackSet_is_write(track, j))
            /\ \A j \in Idx : DirtyTrackSet_is_read(track', j) <=>
                               DirtyTrackSet_is_read(track, j)]_vars

\* the second block of the rw_track test: a read through guard 0, a write through guard 1
C8_Witness ==
  /\ track = [read |-> 1, write |-> 2]
  /\ DirtyTrackSet_is_read(track, 0)
  /\ ~DirtyTrackSet_is_write(track, 0)
  /\ DirtyTrackSet_is_write(track, 1)
  /\ last.op = "deref_mut"

\* C9: a guard dereference of any index clears no read and no write bit; reset_read
\* clears every read bit and leaves the write register, reset_write clears every
\* write bit and leaves the read register.
C9_BitsStayUntilReset ==
  [][/\ (\E i \in Idx : Deref(i) \/ DerefMut(i)) =>
          \A j \in Idx :
            /\ DirtyTrackSet_is_read(track, j) => DirtyTrackSet_is_read(track', j)
            /\ DirtyTrackSet_is_write(track, j) => DirtyTrackSet_is_write(track', j)
     /\ ResetRead =>
          /\ \A j \in Idx : ~DirtyTrackSet_is_read(track', j)
          /\ track'.write = track.write
     /\ ResetWrite =>
          /\ \A j \in Idx : ~DirtyTrackSet_is_write(track', j)
          /\ track'.read = track.read]_vars

C9_Witness ==
  /\ last.op = "reset_read"
  /\ track.read = 0
  /\ DirtyTrackSet_is_write(track, 0) /\ DirtyTrackSet_is_write(track, Width - 1)

AtSite(k) == {s \in Usable : scopes[s].site = k}

\* C10: with heuristics, when the scopes created at one site come one after the other
\* (each dropped before the next is created) and all had the same usage U, the
\* estimators of the site equal U once the first is dropped, and every later scope
\* is created with owned-list capacity and allocator capacity U, so that it does not
\* grow while its usage stays within U.
C10_PresizedToUsage ==
  /\ \A k \in Sites :
       (uses[k].n > 0 /\ uses[k].same /\ ~uses[k].overlap /\ AtSite(k) = {}) =>
         /\ guess_owned(k) = uses[k].owned
         /\ bump => guess_allocation(k) = uses[k].bytes
  /\ \A s \in Usable :
       LET sc == scopes[s]
       IN sc.prev.some =>
            /\ sc.ownsCap = sc.prev.owned
            /\ bump => sc.allocCap = sc.prev.bytes
            /\ (sc.calls <= sc.prev.owned /\ sc.used <= sc.prev.bytes) =>
                 /\ Len(sc.owns) <= sc.ownsCap
                 /\ bump => sc.bytes <= sc.allocCap

\* the same, in the build with bump allocation only
C10_PresizedToUsageBump == bump => C10_PresizedToUsage

\* a second scope of a site presized from the first, in that build
C10_BumpCase ==
  \E s \in Usable :
    /\ bump
    /\ scopes[s].prev.some
    /\ scopes[s].prev.owned > 0
    /\ scopes[s].calls = scopes[s].prev.owned
    /\ scopes[s].used = scopes[s].prev.bytes

StepRank(kind) ==
  CASE kind = "remove" -> 1 [] kind = "bytes" -> 2 [] kind = "owned" -> 3 [] kind = "release" -> 4

\* the estimators after the writes of a drop's steps, taken in their order
RECURSIVE StepsWritten(_, _)
StepsWritten(e, log) ==
  IF log = <<>> THEN e
  ELSE LET x == Head(log)
           k == scopes[x.scope].site
       IN StepsWritten(IF x.step = "bytes" THEN update_guess(e, k, x.n)
                       ELSE IF x.step = "owned" THEN update_owned(e, k, x.n)
                       ELSE e,
                       Tail(log))

\* C11: the drop of a scope first removes every handle of its owned-list from the slot
\* table, in owned-list order and with the destructor run, then writes the byte count
\* to the bytes estimator (bump), then the owned count to the owned-count estimator,
\* and gives the bump region back only after all of these.
C11_DropStepsInOrder ==
  [][\A r \in 1..MaxScopes :
       (DropScope(r) /\ last'.ran /\ fatal' = "none") =>
         LET log == last'.steps
         IN /\ \A s \in Range(PreOrder(r)) :
                 LET mine == SelectSeq(log, LAMBDA x : x.scope = s)
                     rem == SelectSeq(mine, LAMBDA x : x.step = "remove")
                     bytes == SelectSeq(mine, LAMBDA x : x.step = "bytes")
                     owned == SelectSeq(mine, LAMBDA x : x.step = "owned")
                     release == SelectSeq(mine, LAMBDA x : x.step = "release")
                 IN /\ \A i \in DOMAIN mine, j \in DOMAIN mine :
                         i < j => StepRank(mine[i].step) <= StepRank(mine[j].step)
                    /\ [i \in DOMAIN rem |-> rem[i].h] = scopes[s].owns
                    /\ bytes = IF heuristics /\ bump
                               THEN <<Step("bytes", s, NoHandle, scopes[s].bytes)>> ELSE <<>>
                    /\ owned = IF heuristics
                               THEN <<Step("owned", s, NoHandle, Len(scopes[s].owns))>> ELSE <<>>
                    /\ Len(release) = IF bump THEN 1 ELSE 0
            /\ \A i \in DOMAIN log :
                 log[i].step = "remove" =>
                   /\ hist'[log[i].h].dtor = hist[log[i].h].dtor + 1
                   /\ NodeRef_valid(log[i].h)
                   /\ ~Queue_holds(runtimes'[RtIdx(log[i].h.rt)].states, log[i].h.slot, log[i].h.gen)
            /\ est' = StepsWritten(est, log)]_vars

\* a scope and its child, one handle each, were dropped in the bump build
C11_Witness ==
  /\ bump /\ heuristics
  /\ last.op = "drop" /\ last.ran
  /\ \E i, j \in DOMAIN last.steps :
       /\ i < j
       /\ last.steps[i].step = "remove" /\ last.steps[j].step = "remove"
       /\ scopes[last.steps[j].scope].parent = last.steps[i].scope
  /\ \E i \in DOMAIN last.steps : last.steps[i].step = "bytes" /\ last.steps[i].n > 1
  /\ \E i \in DOMAIN last.steps : last.steps[i].step = "owned" /\ last.steps[i].n = 1
  /\ Len(SelectSeq(last.steps, LAMBDA x : x.step = "release")) = 2

ChildFrames == {i \in DOMAIN stack : stack[i].kind = "child"}

\* the scopes child() made: lent to exactly one f in progress while they are built,
\* then held once by the child list of the scope child() was called on
ChildrenPlaced ==
  \A c \in Usable :
    LET p == scopes[c].parent
    IN p # 0 =>
         /\ p \in Usable
         /\ scopes[c].rt = scopes[p].rt
         /\ scopes[c].st = "building" =>
              /\ Cardinality({i \in ChildFrames : stack[i].scope = c}) = 1
              /\ Count(scopes[p].children, c) = 0
         /\ scopes[c].st = "alive" =>
              /\ {i \in ChildFrames : stack[i].scope = c} = {}
              /\ Count(scopes[p].children, c) = 1

\* f has returned for scope c: c is appended to its parent's list in that step, and
\* every child() begun while c was built has returned before
ChildReturns ==
  \A c \in 1..MaxScopes :
    (scopes[c].st = "building" /\ scopes'[c].st = "alive") =>
      /\ scopes'[scopes[c].parent].children = Append(scopes[scopes[c].parent].children, c)
      /\ \A d \in 1..MaxScopes : scopes'[d].st = "building" => d < c
      /\ \A d \in 1..MaxScopes :
           (d > c /\ scopes[d].st = "alive" /\ scopes[d].parent # 0) =>
             Count(scopes[scopes[d].parent].children, d) = 1

\* a child is dropped with the scope that holds it, not before
ChildrenKept ==
  \A c \in Used :
    (scopes[c].parent # 0 /\ scopes[c].st = "dropped") => scopes[scopes[c].parent].st = "dropped"

\* C12 as stated: child(f) calls f once with a new scope of the parent's runtime and
\* appends the scope to the parent's child list once, after f returned; inner child
\* calls are built and appended before the enclosing one returns; the child's handles
\* stay in the slot table until the parent is dropped.
C12_ChildBuilt ==
  /\ [](ChildrenPlaced /\ ChildrenKept)
  /\ [](\A c \in Usable : scopes[c].parent # 0 =>
            \A h \in Range(scopes[c].owns) : NodeRef_valid(h))
  /\ [][ChildReturns]_vars

\* C12, with the child's handles in the slot table until the parent is dropped or,
\* in the multi-instance build, drop_rt has dropped the runtime
C12_ChildBuiltRt ==
  /\ [](ChildrenPlaced /\ ChildrenKept)
  /\ [](\A c \in Usable : (scopes[c].parent # 0 /\ ~RtDropped(scopes[c].rt)) =>
            \A h \in Range(scopes[c].owns) : NodeRef_valid(h))
  /\ [][ChildReturns]_vars

\* a child built inside the f of another child: both returned, each in its parent's
\* list, the inner one with a live handle
C12_Witness ==
  \E a \in Usable, b \in Usable, c \in Usable :
    /\ scopes[a].parent = 0 /\ scopes[b].parent = a /\ scopes[c].parent = b
    /\ scopes[a].st = "alive" /\ scopes[b].st = "alive" /\ scopes[c].st = "alive"
    /\ scopes[a].children = <<b>> /\ scopes[b].children = <<c>>
    /\ stack = <<>>
    /\ \E h \in Range(scopes[c].owns) : NodeRef_valid(h)

\* where in a drop's log the Drop::drop of scope s ran: the write of its owned count
StepOf(log, s) == CHOOSE i \in DOMAIN log : log[i].step = "owned" /\ log[i].scope = s

Siblings(c, d) == c # d /\ scopes[c].parent # 0 /\ scopes[c].parent = scopes[d].parent

C14_CreatedFromEstimators ==
  [][\A c \in 1..MaxScopes :
       (scopes[c].st = "unused" /\ scopes'[c].st # "unused") =>
         /\ scopes'[c].ownsCap = IF heuristics THEN guess_owned(scopes'[c].site) ELSE 0
         /\ scopes'[c].allocCap =
              IF heuristics /\ bump THEN guess_allocation(scopes'[c].site) ELSE 0]_vars

\* C15: a value written to the owned-count estimator of a site is the owned count of
\* a scope of that site, and a value written to its bytes estimator is the byte count
\* of a scope of that site: the build and the drop of a child write nothing of the
\* child's into the estimators of its parent's site.
C15_EstimatorsWrittenFromOwnSite ==
  [][\A k \in Sites :
       /\ est'[k].owned # est[k].owned =>
            \E s \in Usable : scopes[s].site = k /\ est'[k].owned = Len(scopes[s].owns)
       /\ est'[k].bytes # est[k].bytes =>
            \E s \in Usable : scopes[s].site = k /\ est'[k].bytes = scopes[s].bytes]_vars

\* a state, state_with or child call made while a callback is in progress ends the
\* program only if the runtime is gone
NestedCallCompletes ==
  (stack # <<>> /\ fatal = "none" /\ fatal' # "none"
     /\ last'.op \in {"state", "state_with", "scope"}) => fatal' = "runtime dropped"

\* the innermost callback in progress can return
InnermostReturns ==
  (stack # <<>> /\ Running) => ENABLED (ChildEnd \/ \E keep \in BOOLEAN : StateWithEnd(1, keep))

\* C16: state, state_with and child called from inside the f of a child or the
\* constructor of a state_with, on the scope being built, its parent or an ancestor,
\* never find the owned-list or the child list of a scope borrowed; every such call
\* completes, and a child list holds the children in the order their f returned.
C16_NestedCallsComplete ==
  /\ [](fatal # "cell borrowed" /\ InnermostReturns)
  /\ [][ChildReturns /\ NestedCallCompletes]_vars

\* inside the f of a child a state_with on the parent has completed, after a state
\* on the child itself
C16_Witness ==
  /\ Running
  /\ Len(stack) = 1 /\ stack[1].kind = "child"
  /\ last.op = "state_with" /\ last.ran
  /\ LET c == stack[1].scope
         p == scopes[c].parent
     IN /\ scopes[c].owns # <<>>
        /\ \E h \in Range(scopes[p].owns) : hist[h].given = h

\* a constructor of state_with is running, inside the closure of with_rt
InWithRt == \E i \in DOMAIN stack : stack[i].kind = "state_with"

RuntimeTable == [i \in DOMAIN runtimes |-> [ver |-> runtimes[i].ver, live |-> runtimes[i].live]]

\* C17: in the multi-instance build RuntimeId::create, claim_rt and drop_rt called
\* from inside the closure of a with_rt are fatal and leave the runtime table as it
\* was, and a with_rt from inside the closure of a with_rt runs its f.
C17_TableNotMutatedInWithRt ==
  [][(ssr /\ InWithRt) =>
       /\ RuntimeTable' = RuntimeTable
       /\ rtFree' = rtFree
       /\ (RuntimeId_create \/ claim_rt \/ \E id \in KnownIds : drop_rt(id)) =>
            /\ fatal' = "already borrowed"
            /\ ~last'.ran
            /\ runtimes' = runtimes
       /\ \A s \in Held :
            ((ScopeState(s, 1) \/ StateWithBegin(s)) /\ SlotMap_get(runtimes, scopes[s].rt)) =>
              /\ last'.ran
              /\ fatal' = "none"]_vars

\* inside a constructor that runs inside another constructor, drop_rt of the live
\* runtime ended the program and the runtime is still in the table
C17_Witness ==
  /\ ssr
  /\ Len(stack) = 2 /\ stack[1].kind = "state_with" /\ stack[2].kind = "state_with"
  /\ fatal = "already borrowed"
  /\ last.op = "drop_rt" /\ ~last.ran
  /\ SlotMap_get(runtimes, scopes[stack[2].scope].rt)
====
